---- MODULE Spec2Model ----
(***************************************************************************)
(* A model of vralib (a client library for the vRealize Automation REST    *)
(* API) and of the request-item sample: the HTTP requestor                 *)
(* Session._request, the deployment tree built by Deployment.fromid, the   *)
(* day-2 operation methods of Deployment and VirtualMachine, the template  *)
(* patcher patch_dict, the page iterator Session._iterate_pages, the token *)
(* exchange Session.login, and main() of the request-item script with its  *)
(* name-based lookups and its provisioning poll loop.                      *)
(***************************************************************************)
EXTENDS Integers, Sequences, FiniteSets, TLC

VARIABLES
    hasChildren,   \* server: resource id -> the resource's hasChildren flag
    parent,        \* server: resource id -> id of its parent resource, 0 for none
    rtype,         \* server: resource id -> resource-type tag shown in resourceViews
    srvops,        \* server: resource id -> the action descriptors of the resource
    dep,           \* client: the Deployment object built by fromid (NoDep before)
    pc,            \* client: "idle" between calls, "done" after a call
    call,          \* the call under observation and its arguments
    log,           \* the HTTP requests the call sent, in order
    replies,       \* the HTTP responses the call received, in order
    result,        \* how the call ended: a returned value or a raised exception
    base,          \* patch_dict: the dict d as passed in
    patch,         \* patch_dict: the patcher p
    patched,       \* patch_dict: what patch_dict(d, p) returned or raised
    repatched,     \* patch_dict: what patching the result with p once more gave
    session,       \* client: the Session that Session.login returned (NoSession before)
    args,          \* request-item: the command-line arguments
    directory,     \* server: the business groups and the entitled catalog items
    frame,         \* request-item: the local variables of the script
    trail,         \* request-item: the steps the script has taken, in order
    stdout         \* request-item: what the script has printed, in order

vars == <<hasChildren, parent, rtype, srvops, dep, pc, call, log, replies, result,
          base, patch, patched, repatched, session, args, directory, frame, trail,
          stdout>>

serverVars == <<hasChildren, parent, rtype, srvops>>
callVars == <<pc, call, log, replies, result>>
patchVars == <<base, patch, patched, repatched>>
scriptVars == <<args, directory, frame, trail, stdout>>

-----------------------------------------------------------------------------
(* Bounds of the model.                                                    *)

MaxRes == 3        \* resources on the server are numbered 1..MaxRes
MaxOps == 2        \* longest operation list of the resource under test
MaxEntries == 3    \* patch_dict: most keys a dict holds, nested ones counted

-----------------------------------------------------------------------------
(* Python / JSON values.  A value carries its Python type so that the      *)
(* truth tests and the type(...) == dict tests of the code can be modelled.*)

JNull == [t |-> "null"]
JInt(n) == [t |-> "int", n |-> n]
JStr(s) == [t |-> "str", s |-> s]
JDict(f) == [t |-> "dict", m |-> f]

IsDict(v) == v.t = "dict"

Keys(v) == DOMAIN v.m

\* Python's truth value of v (None, 0, "" and {} are false).
Truthy(v) ==
    CASE v.t = "null" -> FALSE
      [] v.t = "int"  -> v.n # 0
      [] v.t = "str"  -> v.s # ""
      [] v.t = "dict" -> Keys(v) # {}
      [] OTHER        -> TRUE

Exc(name) == [t |-> "exc", name |-> name]

-----------------------------------------------------------------------------
(* HTTP bodies.  A body on the wire is empty or the JSON text of a         *)
(* document; json.dumps and json.loads convert between the two.            *)

EmptyBody == [enc |-> "empty"]
NoData == [enc |-> "none"]

dumps(v) == [enc |-> "json", doc |-> v]
loads(c) == c.doc

\* classes.py:186, json.loads(r.content or 'null')
Decode(content) == loads(IF content = EmptyBody THEN dumps(JNull) ELSE content)

\* classes.py:149-150 and the data= argument of requests.request
Data(payload) ==
    IF IsDict(payload) THEN dumps(payload)
    ELSE IF payload = JNull THEN NoData
    ELSE [enc |-> "raw", doc |-> payload]

Return(sent, val) == [log |-> sent, kind |-> "return", val |-> val]
Raise(sent, name) == [log |-> sent, kind |-> "raise", val |-> Exc(name)]

Req(method, url, data) == [method |-> method, url |-> url, data |-> data]

\* a _request that takes a non-2xx response for an answer
_request_lenient(url, request_method, payload, r) ==
    IF request_method = "PUT" \/ Truthy(payload)
    THEN Return(<<Req(request_method, url, Data(payload))>>, Decode(r.content))
    ELSE IF request_method = "GET" \/ request_method = "DELETE"
    THEN Return(<<Req(request_method, url, NoData)>>, Decode(r.content))
    ELSE Raise(<<>>, "Exception")

\* Session._request(url, request_method, payload) answered by the response r.
\* `request_method == "PUT" or "POST" and payload` is
\* `(request_method == "PUT") or ("POST" and payload)` in Python.  Every caller
\* of the model leaves content_only at True, so the decoded content is returned.
_request(url, request_method, payload, r) ==
    IF request_method = "PUT" \/ Truthy(payload)
    THEN LET sent == <<Req(request_method, url, Data(payload))>>
         IN  IF ~r.ok THEN Raise(sent, "HTTPError")
             ELSE Return(sent, Decode(r.content))
    ELSE IF request_method = "GET" \/ request_method = "DELETE"
    THEN LET sent == <<Req(request_method, url, NoData)>>
         IN  IF ~r.ok THEN Raise(sent, "HTTPError")
             ELSE Return(sent, Decode(r.content))
    ELSE Raise(<<>>, "Exception")

-----------------------------------------------------------------------------
(* Paged collections.  A page is a document with the items of the page     *)
(* under `content` and the totals under `metadata`.                        *)

\* classes.py:201, '%s?page=%s%s' % (url, n, query)
PageUrl(url, n, query) == [url |-> url, page |-> n, query |-> query]

PageDoc(content, totalPages, totalElements) ==
    [content |-> content,
     metadata |-> [totalPages |-> totalPages, totalElements |-> totalElements]]

RECURSIVE pages_loop_unchecked(_, _, _, _, _)

\* the loop without the `totalElements == 0` test
pages_loop_unchecked(url, query, n, items, rs) ==
    IF n > Len(rs) THEN [log |-> <<>>, kind |-> "running", val |-> items]
    ELSE LET q == _request(PageUrl(url, n, query), "GET", JNull, rs[n])
         IN  IF q.kind = "raise" THEN q
             ELSE IF q.val = JNull THEN Raise(q.log, "TypeError")
             ELSE IF n = q.val.metadata.totalPages
             THEN Return(q.log, items \o q.val.content)
             ELSE LET rest == pages_loop_unchecked(url, query, n + 1,
                                                   items \o q.val.content, rs)
                  IN  [rest EXCEPT !.log = q.log \o @]

RECURSIVE pages_loop(_, _, _, _, _)

\* classes.py:200-206, the `while True` loop from page n on with the `result` so
\* far; rs[n] is the server's answer to the request for page n.  A null page
\* makes page['content'] raise TypeError.  When the answers of rs are used up
\* the loop is still running.
pages_loop(url, query, n, items, rs) ==
    IF n > Len(rs) THEN [log |-> <<>>, kind |-> "running", val |-> items]
    ELSE LET q == _request(PageUrl(url, n, query), "GET", JNull, rs[n])
         IN  IF q.kind = "raise" THEN q
             ELSE IF q.val = JNull THEN Raise(q.log, "TypeError")
             ELSE IF n = q.val.metadata.totalPages \/ q.val.metadata.totalElements = 0
             THEN Return(q.log, items \o q.val.content)
             ELSE LET rest == pages_loop(url, query, n + 1,
                                         items \o q.val.content, rs)
                  IN  [rest EXCEPT !.log = q.log \o @]

\* an _iterate_pages that starts at the second page
_iterate_pages_from2(url, query, rs) == pages_loop(url, query, 2, <<>>, rs)

\* classes.py:190-208
_iterate_pages(url, query, rs) == pages_loop(url, query, 1, <<>>, rs)

-----------------------------------------------------------------------------
(* The server.  Resource i answers the resource fetch with its document    *)
(* and the resourceViews query `parentResource eq i` with the resources    *)
(* whose parent is i.  A request whose URL is in `down` gets a non-2xx     *)
(* response.                                                               *)

Resources == 1..MaxRes

Url(path, rid, action, tail) ==
    [path |-> path, rid |-> rid, action |-> action, tail |-> tail]

\* classes.py:558-559
ResourceUrl(resource_id) == Url("resources", resource_id, 0, "")

\* deployment.py:94-95
ChildrenUrl(resource_id) == Url("resourceViews", resource_id, 0, "parentResource")

\* deployment.py:70 and :71
TemplateUrl(resource_id, op_id) == Url("resources", resource_id, op_id, "requests/template")
RequestUrl(resource_id, op_id) == Url("resources", resource_id, op_id, "requests")

ResourceDoc(i) ==
    [id |-> i, hasChildren |-> hasChildren[i], operations |-> srvops[i]]

ChildIds(p) == SelectSeq([i \in Resources |-> i], LAMBDA c : parent[c] = p)

ChildrenDoc(p) ==
    [content |-> [k \in 1..Len(ChildIds(p)) |->
                    [resourceId |-> ChildIds(p)[k],
                     resourceType |-> rtype[ChildIds(p)[k]]]]]

ServerReply(url, down) ==
    [ok |-> url \notin down,
     content |-> IF url.path = "resources" THEN dumps(ResourceDoc(url.rid))
                 ELSE dumps(ChildrenDoc(url.rid))]

-----------------------------------------------------------------------------
(* Deployment.fromid: the deployment tree.                                 *)

NoDep == [cls |-> "None"]

\* Deployment.__init__: the fields the methods read
Deployment(cls, deployment, operations, deployment_children) ==
    [cls |-> cls,
     deployment_json |-> deployment,
     resource_id |-> deployment.id,
     operations |-> operations,
     deployment_children |-> deployment_children]

\* deployment.py:67-71
Operation(resource_id, op) ==
    [name |-> op.name,
     description |-> op.description,
     id |-> op.id,
     template_url |-> TemplateUrl(resource_id, op.id),
     request_url |-> RequestUrl(resource_id, op.id)]

\* deployment.py:79-88: the class a child of the given resource type is built as,
\* "" when none of the five tests matches
ChildClassSwapped(resourceType) ==
    CASE resourceType = "Infrastructure.Virtual" -> "VirtualMachine"
      [] resourceType = "Infrastructure.Network.LoadBalancer.NSX" -> "Edge"
      [] resourceType = "Infrastructure.Network.Gateway.NSX.Edge" -> "LoadBalancer"
      [] resourceType = "Infrastructure.Network.Network.Existing" -> "Network"
      [] resourceType = "composition.resource.type.deployment" -> "Deployment"
      [] OTHER -> ""

ChildClassCatchAll(resourceType) ==
    CASE resourceType = "Infrastructure.Virtual" -> "VirtualMachine"
      [] resourceType = "Infrastructure.Network.LoadBalancer.NSX" -> "LoadBalancer"
      [] resourceType = "Infrastructure.Network.Gateway.NSX.Edge" -> "Edge"
      [] resourceType = "Infrastructure.Network.Network.Existing" -> "Network"
      [] OTHER -> "Deployment"

ChildClass(resourceType) ==
    CASE resourceType = "Infrastructure.Virtual" -> "VirtualMachine"
      [] resourceType = "Infrastructure.Network.LoadBalancer.NSX" -> "LoadBalancer"
      [] resourceType = "Infrastructure.Network.Gateway.NSX.Edge" -> "Edge"
      [] resourceType = "Infrastructure.Network.Network.Existing" -> "Network"
      [] resourceType = "composition.resource.type.deployment" -> "Deployment"
      [] OTHER -> ""

\* classes.py:552-560
get_consumer_resource(resource_id, down) ==
    _request(ResourceUrl(resource_id), "GET", JNull,
             ServerReply(ResourceUrl(resource_id), down))

\* deployment.py:92-97
_get_children(resource_id, down) ==
    _request(ChildrenUrl(resource_id), "GET", JNull,
             ServerReply(ChildrenUrl(resource_id), down))

HasChildrenAlways(deployment) == TRUE

\* deployment.py:76
HasChildren(deployment) == deployment.hasChildren = TRUE

RECURSIVE fromid(_, _, _), build_children(_, _, _, _)

\* deployment.py:78-88: the loop over children["content"] from entry i on, with
\* the children built so far
build_children(content, i, down, deployment_children) ==
    IF i > Len(content) THEN Return(<<>>, deployment_children)
    ELSE LET child == content[i]
             cls == ChildClass(child.resourceType)
         IN  IF cls = ""
             THEN build_children(content, i + 1, down, deployment_children)
             ELSE LET c == fromid(cls, child.resourceId, down)
                  IN  IF c.kind = "raise" THEN c
                      ELSE LET rest == build_children(content, i + 1, down,
                                           Append(deployment_children, c.val))
                           IN  [rest EXCEPT !.log = c.log \o @]

\* deployment.py:50-90
fromid(cls, resource_id, down) ==
    LET q == get_consumer_resource(resource_id, down)
    IN  IF q.kind = "raise" THEN q
        ELSE
          LET deployment == q.val
              operations == [k \in 1..Len(deployment.operations) |->
                               Operation(resource_id, deployment.operations[k])]
          IN  IF HasChildren(deployment)
              THEN LET c == _get_children(resource_id, down)
                   IN  IF c.kind = "raise" THEN [c EXCEPT !.log = q.log \o @]
                       ELSE LET kids == build_children(c.val.content, 1, down, <<>>)
                            IN  IF kids.kind = "raise"
                                THEN [kids EXCEPT !.log = q.log \o c.log \o @]
                                ELSE Return(q.log \o c.log \o kids.log,
                                            Deployment(cls, deployment, operations,
                                                       kids.val))
              ELSE Return(q.log, Deployment(cls, deployment, operations, <<>>))

-----------------------------------------------------------------------------
(* The operation methods of Deployment and VirtualMachine.  rs are the     *)
(* responses the server gives to the requests of the call, in order.       *)

\* `for o in self.operations: if o["name"] == operation: return ...`: the index
\* of the operation the loop returns at, 0 when it falls off the end
LastMatch(operations, name) ==
    IF \E i \in 1..Len(operations) : operations[i].name = name
    THEN CHOOSE i \in 1..Len(operations) :
            /\ operations[i].name = name
            /\ \A j \in 1..Len(operations) : operations[j].name = name => j <= i
    ELSE 0

FirstMatch(operations, name) ==
    IF \E i \in 1..Len(operations) : operations[i].name = name
    THEN CHOOSE i \in 1..Len(operations) :
            /\ operations[i].name = name
            /\ \A j \in 1..(i - 1) : operations[j].name # name
    ELSE 0

\* deployment.py:126-139
get_operation_template(self, operation, rs) ==
    LET i == FirstMatch(self.operations, operation)
    IN  IF i = 0 THEN Return(<<>>, JNull)
        ELSE _request(self.operations[i].template_url, "GET", JNull, rs[1])

\* deployment.py:141-144
execute_operation(self, operation, payload, rs) ==
    LET i == FirstMatch(self.operations, operation)
    IN  IF i = 0 THEN Return(<<>>, JNull)
        ELSE _request(self.operations[i].request_url, "POST", payload, rs[1])

\* deployment.py:161-164, 167-170, 173-176: the body the three methods share
template_then_request(self, name, rs) ==
    LET i == FirstMatch(self.operations, name)
    IN  IF i = 0 THEN Return(<<>>, JNull)
        ELSE LET o == self.operations[i]
                 t == _request(o.template_url, "GET", JNull, rs[1])
             IN  IF t.kind = "raise" THEN t
                 ELSE LET q == _request(o.request_url, "POST", t.val, rs[2])
                      IN  [q EXCEPT !.log = t.log \o @]

power_on(self, rs) == template_then_request(self, "Power On", rs)

power_off(self, rs) == template_then_request(self, "Power Off", rs)

reboot(self, rs) == template_then_request(self, "Reboot", rs)

\* v[k] in Python: the exception it raises, "" when it raises none
ItemError(v, k) ==
    IF ~IsDict(v) THEN "TypeError"
    ELSE IF k \notin Keys(v) THEN "KeyError"
    ELSE ""

\* v.items() in Python
ItemsError(v) == IF IsDict(v) THEN "" ELSE "AttributeError"

\* deployment.py:119 on one tier: tier["data"]["_cluster"] = new_value
TierError(tier) ==
    IF ItemError(tier, "data") # "" THEN ItemError(tier, "data")
    ELSE IF ~IsDict(tier.m["data"]) THEN "TypeError"
    ELSE ""

\* deployment.py:118-119 on one entry of template["data"]
ComponentError(comp) ==
    IF ItemError(comp, "data") # "" THEN ItemError(comp, "data")
    ELSE IF ItemsError(comp.m["data"]) # "" THEN ItemsError(comp.m["data"])
    ELSE LET bad == {k \in Keys(comp.m["data"]) : TierError(comp.m["data"].m[k]) # ""}
         IN  IF bad = {} THEN "" ELSE TierError(comp.m["data"].m[CHOOSE k \in bad : TRUE])

\* deployment.py:117-119: the exception the two loops raise on this template,
\* "" when they raise none
TemplateError(template) ==
    IF ItemError(template, "data") # "" THEN ItemError(template, "data")
    ELSE IF ItemsError(template.m["data"]) # "" THEN ItemsError(template.m["data"])
    ELSE LET bad == {k \in Keys(template.m["data"]) :
                        ComponentError(template.m["data"].m[k]) # ""}
         IN  IF bad = {} THEN ""
             ELSE ComponentError(template.m["data"].m[CHOOSE k \in bad : TRUE])

SetTier(tier, new_value) ==
    JDict([tier.m EXCEPT !["data"] = JDict(("_cluster" :> new_value) @@ @.m)])

SetFirstTier(comp, new_value) ==
    LET tiers == comp.m["data"].m
    IN  JDict([comp.m EXCEPT !["data"] =
                 JDict([k \in DOMAIN tiers |->
                          IF k = (CHOOSE j \in DOMAIN tiers : TRUE)
                          THEN SetTier(tiers[k], new_value) ELSE tiers[k]])])

\* deployment.py:118-119
SetComponent(comp, new_value) ==
    JDict([comp.m EXCEPT !["data"] =
             JDict([k \in Keys(@) |-> SetTier(@.m[k], new_value)])])

\* deployment.py:117-119: the template after the two loops
set_cluster(template, new_value) ==
    JDict([template.m EXCEPT !["data"] =
             JDict([k \in Keys(@) |-> SetComponent(@.m[k], new_value)])])

RECURSIVE scale_out_fetch(_, _, _, _, _, _)

\* deployment.py:114-119: the first loop from operation i on, n requests made so
\* far; returns the template it leaves
scale_out_fetch(operations, i, template, new_value, rs, n) ==
    IF i > Len(operations) THEN Return(<<>>, template)
    ELSE IF operations[i].name = "Scale Out"
    THEN LET q == _request(operations[i].template_url, "GET", JNull, rs[n + 1])
         IN  IF q.kind = "raise" THEN q
             ELSE IF TemplateError(q.val) # "" THEN Raise(q.log, TemplateError(q.val))
             ELSE LET rest == scale_out_fetch(operations, i + 1,
                                  set_cluster(q.val, new_value), new_value, rs, n + 1)
                  IN  [rest EXCEPT !.log = q.log \o @]
    ELSE scale_out_fetch(operations, i + 1, template, new_value, rs, n)

\* deployment.py:99-124
scale_out(self, new_value, rs) ==
    LET f == scale_out_fetch(self.operations, 1, JNull, new_value, rs, 0)
        i == FirstMatch(self.operations, "Scale Out")
    IN  IF f.kind = "raise" THEN f
        ELSE IF i = 0 THEN Return(f.log, JNull)
        ELSE LET q == _request(self.operations[i].request_url, "POST", f.val,
                               rs[Len(f.log) + 1])
             IN  [q EXCEPT !.log = f.log \o @]

-----------------------------------------------------------------------------
(* patch_dict of the request-item sample (the tool and the sample hold the *)
(* same function).                                                         *)

\* what `for k in p` iterates over; the strings of the model have at most one
\* character
Chars(s) == IF s = "" THEN {} ELSE {s}

RECURSIVE patch_dict_adding(_, _)

\* a patch_dict without the `if k in d.keys()` test
patch_dict_adding(d, p) ==
    IF ~IsDict(p) THEN Raise(<<>>, "TypeError")
    ELSE LET sub == [k \in Keys(p) |->
                       IF k \in Keys(d) /\ IsDict(d.m[k])
                       THEN patch_dict_adding(d.m[k], p.m[k])
                       ELSE Return(<<>>, p.m[k])]
         IN  IF \E k \in Keys(p) : sub[k].kind = "raise" THEN Raise(<<>>, "TypeError")
             ELSE Return(<<>>, JDict([k \in Keys(d) \cup Keys(p) |->
                                        IF k \in Keys(p) THEN sub[k].val ELSE d.m[k]]))

RECURSIVE patch_dict_keeping(_, _)

\* a patch_dict that leaves a value that is not a dict as it is
patch_dict_keeping(d, p) ==
    IF ~IsDict(p) THEN Raise(<<>>, "TypeError")
    ELSE LET both == Keys(p) \cap Keys(d)
             sub == [k \in both |->
                       IF IsDict(d.m[k]) THEN patch_dict_keeping(d.m[k], p.m[k])
                       ELSE Return(<<>>, d.m[k])]
         IN  IF \E k \in both : sub[k].kind = "raise" THEN Raise(<<>>, "TypeError")
             ELSE Return(<<>>, JDict([k \in Keys(d) |->
                                        IF k \in both THEN sub[k].val ELSE d.m[k]]))

RECURSIVE patch_dict_whole(_, _)

\* a patch_dict with `d[k] = p` for `d[k] = p[k]`
patch_dict_whole(d, p) ==
    IF ~IsDict(p) THEN Raise(<<>>, "TypeError")
    ELSE LET both == Keys(p) \cap Keys(d)
             sub == [k \in both |->
                       IF IsDict(d.m[k]) THEN patch_dict_whole(d.m[k], p.m[k])
                       ELSE Return(<<>>, p)]
         IN  IF \E k \in both : sub[k].kind = "raise" THEN Raise(<<>>, "TypeError")
             ELSE Return(<<>>, JDict([k \in Keys(d) |->
                                        IF k \in both THEN sub[k].val ELSE d.m[k]]))

RECURSIVE patch_dict(_, _)

\* tool-samples/request-item.py:61-72 and request-item.py:61-68.  d is a dict; p
\* is whatever the patcher holds at this place: iterating a number or None raises
\* TypeError, iterating a string gives its characters, and p[k] of a string
\* raises TypeError.
patch_dict(d, p) ==
    IF p.t \notin {"dict", "str"} THEN Raise(<<>>, "TypeError")
    ELSE IF p.t = "str"
    THEN IF Chars(p.s) \cap Keys(d) = {} THEN Return(<<>>, d)
         ELSE Raise(<<>>, "TypeError")
    ELSE LET both == Keys(p) \cap Keys(d)
             sub == [k \in both |->
                       IF IsDict(d.m[k]) THEN patch_dict(d.m[k], p.m[k])
                       ELSE Return(<<>>, p.m[k])]
         IN  IF \E k \in both : sub[k].kind = "raise" THEN Raise(<<>>, "TypeError")
             ELSE Return(<<>>, JDict([k \in Keys(d) |->
                                        IF k \in both THEN sub[k].val ELSE d.m[k]]))

-----------------------------------------------------------------------------
(* Calls and what is observed of them.                                     *)

NoCall == [op |-> "none", cls |-> "", target |-> 0, name |-> "", arg |-> JNull,
           down |-> {}]

NoResult == [kind |-> "none", val |-> JNull]

Observe(c, r, rs) ==
    /\ pc' = "done"
    /\ call' = c
    /\ log' = r.log
    /\ replies' = SubSeq(rs, 1, Len(r.log))
    /\ result' = [kind |-> r.kind, val |-> r.val]

NoPatch == JNull

NoSession == JNull

NoArgs == JNull

NoDirectory == JNull

NoFrame == JNull

\* the state of the request-item script where it is not run
ScriptUnused ==
    /\ args = NoArgs
    /\ directory = NoDirectory
    /\ frame = NoFrame
    /\ trail = <<>>
    /\ stdout = <<>>

-----------------------------------------------------------------------------
(* The tree builder under every server state within the bounds.            *)

RecognisedTags ==
    {"Infrastructure.Virtual",
     "Infrastructure.Network.LoadBalancer.NSX",
     "Infrastructure.Network.Gateway.NSX.Edge",
     "Infrastructure.Network.Network.Existing",
     "composition.resource.type.deployment"}

Tags == RecognisedTags \cup {"Infrastructure.Cloud"}

ActionDoc(k, name) == [name |-> name, description |-> name, id |-> k]

ActionDocs(names) == [k \in 1..Len(names) |-> ActionDoc(k, names[k])]

PowerOps == ActionDocs(<<"Power On", "Power Off", "Reboot">>)

\* the URLs a call may find failing: none, or any one of them
Outages ==
    {{}} \cup {{ResourceUrl(i)} : i \in Resources}
         \cup {{ChildrenUrl(i)} : i \in Resources}

TreeInit ==
    /\ hasChildren \in [Resources -> BOOLEAN]
    /\ parent \in {f \in [Resources -> 0..MaxRes] : \A i \in Resources : f[i] < i}
    /\ rtype \in {f \in [Resources -> Tags] :
                    \A i \in Resources :
                        parent[i] = 0 => f[i] = "composition.resource.type.deployment"}
    /\ srvops = [i \in Resources |-> PowerOps]
    /\ dep = NoDep
    /\ pc = "idle"
    /\ call = NoCall
    /\ log = <<>>
    /\ replies = <<>>
    /\ result = NoResult
    /\ base = NoPatch
    /\ patch = NoPatch
    /\ patched = NoResult
    /\ repatched = NoResult
    /\ session = NoSession
    /\ ScriptUnused

\* dep = cls.fromid(session, resource_id)
FromIdCall(cls, resource_id, down) ==
    /\ pc = "idle"
    /\ LET r == fromid(cls, resource_id, down)
       IN  /\ Observe([NoCall EXCEPT !.op = "fromid", !.cls = cls,
                                     !.target = resource_id, !.down = down],
                      r, [k \in 1..Len(r.log) |-> ServerReply(r.log[k].url, down)])
           /\ dep' = IF r.kind = "return" THEN r.val ELSE dep
    /\ UNCHANGED <<serverVars, patchVars, session, scriptVars>>

\* the caller drops the object and what it observed
Discard ==
    /\ pc = "done"
    /\ pc' = "idle"
    /\ dep' = NoDep
    /\ call' = NoCall
    /\ log' = <<>>
    /\ replies' = <<>>
    /\ result' = NoResult
    /\ UNCHANGED <<serverVars, patchVars, session, scriptVars>>

TreeNext ==
    \/ \E cls \in {"Deployment", "VirtualMachine"}, i \in Resources, down \in Outages :
           FromIdCall(cls, i, down)
    \/ Discard

SpecTree == TreeInit /\ [][TreeNext]_vars

-----------------------------------------------------------------------------
(* The operation methods on a deployment built by fromid, under every      *)
(* response of the server within the bounds.                               *)

OpNames == {"Power On", "Power Off", "Reboot", "Scale Out"}

AskedNames == OpNames \cup {"Destroy"}

NameSeqs == UNION {[1..n -> OpNames] : n \in 0..MaxOps}

Tier(f) == JDict("data" :> JDict(f))

\* {"data": {"app": {"data": {"web": {"data": {"_cluster": 1, "cpu": 2}}}}}}
OneTier ==
    JDict("data" :> JDict("app" :> Tier(
        "web" :> Tier(("_cluster" :> JInt(1)) @@ ("cpu" :> JInt(2))))))

\* two tiers, one without a _cluster field yet, and fields beside the data sections
TwoTiers ==
    JDict(("type" :> JStr("request")) @@
          ("data" :> JDict("app" :> JDict(
              ("classId" :> JStr("Blueprint")) @@
              ("data" :> JDict(
                  ("web" :> Tier(("_cluster" :> JInt(1)) @@ ("cpu" :> JInt(2)))) @@
                  ("db" :> JDict(("label" :> JStr("db")) @@
                                 ("data" :> JDict("cpu" :> JInt(4)))))))))))

\* {"data": {"app": {"data": {"_cluster": 1}}}}: the entries of the component's
\* data section are numbers, not tiers
FlatTemplate ==
    JDict("data" :> JDict("app" :> Tier("_cluster" :> JInt(1))))

Contents ==
    {EmptyBody, dumps(JDict(<<>>)), dumps(OneTier), dumps(TwoTiers), dumps(FlatTemplate)}

Responses ==
    {[ok |-> TRUE, content |-> c] : c \in Contents}
        \cup {[ok |-> FALSE, content |-> EmptyBody]}

Payloads == {JNull, JDict(<<>>), OneTier, JStr(""), JStr("{}")}

NewValues == {JInt(1), JInt(3)}

OpsInit ==
    /\ parent = [i \in Resources |-> IF i = 2 THEN 1 ELSE 0]
    /\ rtype = [i \in Resources |-> IF i = 2 THEN "Infrastructure.Virtual"
                                    ELSE "composition.resource.type.deployment"]
    /\ hasChildren \in {[i \in Resources |-> b /\ i = 1] : b \in BOOLEAN}
    /\ srvops \in {[i \in Resources |-> IF i = 1 THEN ActionDocs(names) ELSE PowerOps] :
                     names \in NameSeqs}
    /\ dep \in {fromid(cls, 1, {}).val : cls \in {"Deployment", "VirtualMachine"}}
    /\ pc = "idle"
    /\ call = NoCall
    /\ log = <<>>
    /\ replies = <<>>
    /\ result = NoResult
    /\ base = NoPatch
    /\ patch = NoPatch
    /\ patched = NoResult
    /\ repatched = NoResult
    /\ session = NoSession
    /\ ScriptUnused

\* the object a call is made on: the deployment itself (0) or its k-th child
Targets == 0..Len(dep.deployment_children)

Target(k) == IF k = 0 THEN dep ELSE dep.deployment_children[k]

Count(operations, name) ==
    Cardinality({i \in 1..Len(operations) : operations[i].name = name})

GetOperationTemplateCall(k, operation, rs) ==
    /\ pc = "idle"
    /\ Observe([NoCall EXCEPT !.op = "get_operation_template", !.target = k,
                              !.name = operation],
               get_operation_template(Target(k), operation, rs), rs)
    /\ UNCHANGED <<serverVars, dep, patchVars, session, scriptVars>>

ExecuteOperationCall(k, operation, payload, rs) ==
    /\ pc = "idle"
    /\ Observe([NoCall EXCEPT !.op = "execute_operation", !.target = k,
                              !.name = operation, !.arg = payload],
               execute_operation(Target(k), operation, payload, rs), rs)
    /\ UNCHANGED <<serverVars, dep, patchVars, session, scriptVars>>

\* a scale_out that keeps the template it fetched in the operation it used
ScaleOutCallKeeping(k, new_value, rs) ==
    /\ pc = "idle"
    /\ LET r == scale_out(Target(k), new_value, rs)
           kept == [Target(k) EXCEPT !.operations =
                       [i \in 1..Len(@) |->
                          IF @[i].name = "Scale Out" /\ r.kind = "return"
                          THEN [@[i] EXCEPT !.description = "fetched"] ELSE @[i]]]
       IN  /\ Observe([NoCall EXCEPT !.op = "scale_out", !.target = k,
                                     !.arg = new_value], r, rs)
           /\ dep' = IF k = 0 THEN kept
                     ELSE [dep EXCEPT !.deployment_children[k] = kept]
    /\ UNCHANGED <<serverVars, patchVars, session, scriptVars>>

ScaleOutCall(k, new_value, rs) ==
    /\ pc = "idle"
    /\ Observe([NoCall EXCEPT !.op = "scale_out", !.target = k, !.arg = new_value],
               scale_out(Target(k), new_value, rs), rs)
    /\ UNCHANGED <<serverVars, dep, patchVars, session, scriptVars>>

PowerOnCall(k, rs) ==
    /\ pc = "idle"
    /\ Target(k).cls = "VirtualMachine"
    /\ Observe([NoCall EXCEPT !.op = "power_on", !.target = k, !.name = "Power On"],
               power_on(Target(k), rs), rs)
    /\ UNCHANGED <<serverVars, dep, patchVars, session, scriptVars>>

PowerOffCall(k, rs) ==
    /\ pc = "idle"
    /\ Target(k).cls = "VirtualMachine"
    /\ Observe([NoCall EXCEPT !.op = "power_off", !.target = k, !.name = "Power Off"],
               power_off(Target(k), rs), rs)
    /\ UNCHANGED <<serverVars, dep, patchVars, session, scriptVars>>

RebootCall(k, rs) ==
    /\ pc = "idle"
    /\ Target(k).cls = "VirtualMachine"
    /\ Observe([NoCall EXCEPT !.op = "reboot", !.target = k, !.name = "Reboot"],
               reboot(Target(k), rs), rs)
    /\ UNCHANGED <<serverVars, dep, patchVars, session, scriptVars>>

\* the caller goes on to its next call on the same object
NextCall ==
    /\ pc = "done"
    /\ pc' = "idle"
    /\ call' = NoCall
    /\ log' = <<>>
    /\ replies' = <<>>
    /\ result' = NoResult
    /\ UNCHANGED <<serverVars, dep, patchVars, session, scriptVars>>

OpsNext ==
    \/ \E k \in Targets, name \in AskedNames, rs \in [1..1 -> Responses] :
           GetOperationTemplateCall(k, name, rs)
    \/ \E k \in Targets, name \in AskedNames, payload \in Payloads,
          rs \in [1..1 -> Responses] :
           ExecuteOperationCall(k, name, payload, rs)
    \/ \E k \in Targets, new_value \in NewValues :
           \E rs \in [1..(Count(Target(k).operations, "Scale Out") + 1) -> Responses] :
               ScaleOutCall(k, new_value, rs)
    \/ \E k \in Targets, rs \in [1..2 -> Responses] : PowerOnCall(k, rs)
    \/ \E k \in Targets, rs \in [1..2 -> Responses] : PowerOffCall(k, rs)
    \/ \E k \in Targets, rs \in [1..2 -> Responses] : RebootCall(k, rs)
    \/ NextCall

SpecOps == OpsInit /\ [][OpsNext]_vars

-----------------------------------------------------------------------------
(* Properties of the operation methods (SpecOps).                          *)

\* the object the observed call was made on, and where its operations of a
\* given name are
Self == Target(call.target)

Matches(name) == {i \in 1..Len(Self.operations) : Self.operations[i].name = name}

Least(S) == CHOOSE i \in S : \A j \in S : i <= j

\* what a response body stands for: nothing for an empty body, else its document
JsonOf(content) == IF content.enc = "empty" THEN JNull ELSE content.doc

Called(op) == pc = "done" /\ call.op = op

\* C1: get_operation_template with a name that matches no operation of the set
\* signals NotFoundError and issues no HTTP request.
C1_UnknownNameSignalsNotFound ==
    (Called("get_operation_template") /\ Matches(call.name) = {}) =>
        /\ log = <<>>
        /\ result.kind = "raise"
        /\ result.val = Exc("NotFoundError")

\* C2: get_operation_template with a name some operation has issues exactly one
\* request, a GET of the template URL of the first operation of that name, and
\* returns the decoded body of the response (a non-2xx response raises HTTPError).
C2_TemplateOfFirstMatch ==
    (Called("get_operation_template") /\ Matches(call.name) # {}) =>
        /\ log = <<Req("GET", Self.operations[Least(Matches(call.name))].template_url,
                       NoData)>>
        /\ Len(replies) = 1
        /\ IF replies[1].ok
           THEN result = [kind |-> "return", val |-> JsonOf(replies[1].content)]
           ELSE result = [kind |-> "raise", val |-> Exc("HTTPError")]

C2_Witness ==
    /\ Called("get_operation_template")
    /\ Cardinality(Matches(call.name)) = 2
    /\ result.kind = "return"
    /\ result.val = TwoTiers

\* C3: execute_operation with a name some operation has issues exactly one
\* request, a POST of the caller's payload to the request URL of the first
\* operation of that name, and returns the decoded response, whatever the payload
\* is (an empty mapping and None included).
C3_PostsEveryPayload ==
    (Called("execute_operation") /\ Matches(call.name) # {}) =>
        /\ log = <<Req("POST", Self.operations[Least(Matches(call.name))].request_url,
                       Data(call.arg))>>
        /\ Len(replies) = 1
        /\ replies[1].ok =>
               result = [kind |-> "return", val |-> JsonOf(replies[1].content)]

\* C4: power_on, power_off and reboot, when the operation of their name exists,
\* GET its template URL and then POST the fetched template, unmodified, to its
\* request URL: one GET, then one POST, for every template body the server
\* returns (an empty one included).
C4_FetchThenSubmit ==
    (/\ pc = "done"
     /\ call.op \in {"power_on", "power_off", "reboot"}
     /\ Matches(call.name) # {}) =>
        LET o == Self.operations[Least(Matches(call.name))]
        IN  /\ Len(log) >= 1
            /\ log[1] = Req("GET", o.template_url, NoData)
            /\ replies[1].ok =>
                   log = <<log[1],
                           Req("POST", o.request_url,
                               dumps(JsonOf(replies[1].content)))>>

\* the body B is the template T with _cluster set to v in every tier (every entry
\* of the data section of every entry of T's data section) and nothing else changed
SameButCluster(T, B, v) ==
    /\ IsDict(B) /\ Keys(B) = Keys(T)
    /\ \A k \in Keys(T) \ {"data"} : B.m[k] = T.m[k]
    /\ IsDict(B.m["data"]) /\ Keys(B.m["data"]) = Keys(T.m["data"])
    /\ \A c \in Keys(T.m["data"]) :
         LET tc == T.m["data"].m[c]
             bc == B.m["data"].m[c]
         IN  /\ IsDict(bc) /\ Keys(bc) = Keys(tc)
             /\ \A k \in Keys(tc) \ {"data"} : bc.m[k] = tc.m[k]
             /\ IsDict(bc.m["data"]) /\ Keys(bc.m["data"]) = Keys(tc.m["data"])
             /\ \A i \in Keys(tc.m["data"]) :
                  LET tt == tc.m["data"].m[i]
                      bt == bc.m["data"].m[i]
                  IN  /\ IsDict(bt) /\ Keys(bt) = Keys(tt)
                      /\ \A k \in Keys(tt) \ {"data"} : bt.m[k] = tt.m[k]
                      /\ IsDict(bt.m["data"])
                      /\ Keys(bt.m["data"]) = Keys(tt.m["data"]) \cup {"_cluster"}
                      /\ bt.m["data"].m["_cluster"] = v
                      /\ \A k \in Keys(tt.m["data"]) \ {"_cluster"} :
                             bt.m["data"].m[k] = tt.m["data"].m[k]

\* C5: the body scale_out(new_value) posts is the 'Scale Out' template it fetched
\* (the last one, when it fetched several) with _cluster equal to new_value in
\* every tier and every other field unchanged; a scale_out that returns has
\* posted exactly once, as its last request.
C5_ScaleOutSetsEveryTier ==
    Called("scale_out") =>
        LET n == Len(log)
            posts == {i \in 1..n : log[i].method = "POST"}
        IN  /\ posts \subseteq {n}
            /\ (result.kind = "return" /\ Matches("Scale Out") # {}) => posts = {n}
            /\ posts = {n} =>
                  /\ n >= 2
                  /\ log[n - 1].method = "GET"
                  /\ replies[n - 1].ok
                  /\ log[n].data.enc = "json"
                  /\ SameButCluster(JsonOf(replies[n - 1].content), log[n].data.doc,
                                    call.arg)

C5_Witness ==
    /\ Called("scale_out")
    /\ Len(log) = 2
    /\ log[2].method = "POST"
    /\ JsonOf(replies[1].content) = TwoTiers
    /\ call.arg = JInt(3)
    /\ result.kind = "return"

\* C9: no call of get_operation_template, execute_operation, scale_out, power_on,
\* power_off or reboot changes the deployment object: its operation set and its
\* child list, and those of every descendant, stay as fromid built them, whatever
\* the server answers.
C9_SnapshotKept == [][dep' = dep]_vars

C9_Witness ==
    /\ Called("scale_out")
    /\ result.kind = "return"
    /\ Len(log) = 2
    /\ Len(dep.deployment_children) = 1
    /\ dep = fromid(dep.cls, 1, {}).val

-----------------------------------------------------------------------------
(* Properties of the tree builder (SpecTree).                              *)

\* the children the server reports for a resource, as the resourceViews query
\* lists them
Reported(i) == [k \in 1..Len(ChildIds(i)) |->
                  [resourceId |-> ChildIds(i)[k], resourceType |-> rtype[ChildIds(i)[k]]]]

\* C6: fromid on a resource whose hasChildren flag is false makes one HTTP
\* request, the fetch of that resource, and no children query; the node it builds
\* (it builds one whenever that fetch succeeds) has an empty child list.
C6_NoChildrenNoQuery ==
    (Called("fromid") /\ ~hasChildren[call.target]) =>
        /\ log = <<Req("GET", ResourceUrl(call.target), NoData)>>
        /\ (ResourceUrl(call.target) \notin call.down) = (result.kind = "return")
        /\ result.kind = "return" =>
              /\ result.val.resource_id = call.target
              /\ result.val.deployment_children = <<>>

C6_Witness ==
    /\ Called("fromid")
    /\ ~hasChildren[call.target]
    /\ Len(Reported(call.target)) > 0
    /\ result.kind = "return"

RECURSIVE NoUnknownChild(_)

\* no node of the tree has more children than the server reports for it, and
\* none has a child of an unrecognised type
NoUnknownChild(node) ==
    /\ Len(node.deployment_children) <= Len(Reported(node.resource_id))
    /\ \A k \in 1..Len(node.deployment_children) :
         /\ rtype[node.deployment_children[k].resource_id] \in RecognisedTags
         /\ NoUnknownChild(node.deployment_children[k])

\* C7: a child whose resource type is none of the five recognised ones is left
\* out of the tree without an error and without being fetched, so no node has
\* more children than the server reported for it.
C7_UnknownTagOmitted ==
    Called("fromid") =>
        /\ \A k \in 1..Len(log) :
             (log[k].url.path = "resources" /\ log[k].url.rid # call.target) =>
                 rtype[log[k].url.rid] \in RecognisedTags
        /\ call.down = {} => result.kind = "return"
        /\ result.kind = "return" => NoUnknownChild(result.val)

C7_Witness ==
    /\ Called("fromid")
    /\ call.down = {}
    /\ result.kind = "return"
    /\ hasChildren[call.target]
    /\ Len(Reported(call.target)) = 2
    /\ Reported(call.target)[1].resourceType \notin RecognisedTags
    /\ Len(result.val.deployment_children) = 1

\* the variant a recognised resource type is built as
Variant ==
    [tag \in RecognisedTags |->
       IF tag = "Infrastructure.Virtual" THEN "VirtualMachine"
       ELSE IF tag = "Infrastructure.Network.LoadBalancer.NSX" THEN "LoadBalancer"
       ELSE IF tag = "Infrastructure.Network.Gateway.NSX.Edge" THEN "Edge"
       ELSE IF tag = "Infrastructure.Network.Network.Existing" THEN "Network"
       ELSE "Deployment"]

RECURSIVE ChildrenAsReported(_)

\* the children of every node whose hasChildren flag is set are the reported
\* children of a recognised type, each once, in the order reported, each of the
\* variant of its type and with the same true of it
ChildrenAsReported(node) ==
    LET recognised == SelectSeq(Reported(node.resource_id),
                                LAMBDA e : e.resourceType \in RecognisedTags)
        children == node.deployment_children
    IN  /\ hasChildren[node.resource_id] => Len(children) = Len(recognised)
        /\ ~hasChildren[node.resource_id] => children = <<>>
        /\ \A k \in 1..Len(children) :
             /\ children[k].resource_id = recognised[k].resourceId
             /\ children[k].cls = Variant[recognised[k].resourceType]
             /\ ChildrenAsReported(children[k])

\* C8: every child the children query returns with a recognised resource type is
\* in the parent's child list exactly once, in server order, as the variant of
\* its type, and is itself built by the same rule.
C8_ChildrenAsReported ==
    (Called("fromid") /\ result.kind = "return") =>
        /\ result.val.cls = call.cls
        /\ result.val.resource_id = call.target
        /\ ChildrenAsReported(result.val)

C8_Witness ==
    /\ Called("fromid")
    /\ result.kind = "return"
    /\ Len(result.val.deployment_children) = 1
    /\ result.val.deployment_children[1].cls = "Edge"
    /\ Len(result.val.deployment_children[1].deployment_children) = 1
    /\ result.val.deployment_children[1].deployment_children[1].cls = "LoadBalancer"

-----------------------------------------------------------------------------
(* patch_dict on every base and patcher within the bounds.                 *)

Scalars == {JInt(1), JInt(2), JStr("a")}

RECURSIVE DictsOfSize(_)

\* the values holding n keys in all: for n = 0 the scalars and the empty dict
ValuesOfSize(n) == IF n = 0 THEN Scalars \cup {JDict(<<>>)} ELSE DictsOfSize(n)

\* the dicts over the keys "a" and "b" that hold n keys in all, nested ones counted
DictsOfSize(n) ==
    IF n = 0 THEN {JDict(<<>>)}
    ELSE {JDict(k :> v) : k \in {"a", "b"}, v \in ValuesOfSize(n - 1)}
         \cup UNION {{JDict(("a" :> v) @@ ("b" :> w)) :
                         v \in ValuesOfSize(i), w \in ValuesOfSize(n - 2 - i)} :
                     i \in 0..(n - 2)}

Dicts == UNION {DictsOfSize(n) : n \in 0..MaxEntries}

PatchInit ==
    /\ base \in Dicts
    /\ patch \in Dicts
    /\ patched = NoResult
    /\ repatched = NoResult
    /\ session = NoSession
    /\ ScriptUnused
    /\ pc = "idle"
    /\ hasChildren = [i \in Resources |-> FALSE]
    /\ parent = [i \in Resources |-> 0]
    /\ rtype = [i \in Resources |-> "composition.resource.type.deployment"]
    /\ srvops = [i \in Resources |-> <<>>]
    /\ dep = NoDep
    /\ call = NoCall
    /\ log = <<>>
    /\ replies = <<>>
    /\ result = NoResult

\* request_template = patch_dict(request_template, d)
PatchCall ==
    /\ pc = "idle"
    /\ pc' = "done"
    /\ LET r == patch_dict(base, patch)
       IN  patched' = [kind |-> r.kind, val |-> r.val]
    /\ UNCHANGED <<serverVars, dep, call, log, replies, result, base, patch, repatched,
                   session, scriptVars>>

\* patch_dict(request_template, d) once more, on the dict the first call returned
PatchAgain ==
    /\ pc = "done"
    /\ patched.kind = "return"
    /\ repatched = NoResult
    /\ LET r == patch_dict(patched.val, patch)
       IN  repatched' = [kind |-> r.kind, val |-> r.val]
    /\ UNCHANGED <<serverVars, dep, callVars, base, patch, patched, session, scriptVars>>

PatchNext ==
    \/ PatchCall
    \/ PatchAgain

SpecPatch == PatchInit /\ [][PatchNext]_vars

-----------------------------------------------------------------------------
(* Properties of patch_dict (SpecPatch).                                   *)

RECURSIVE NoKeyAdded(_, _)

\* R has the keys of B and, wherever B holds a dict, so does R, with the same true
\* of the two
NoKeyAdded(B, R) ==
    /\ IsDict(R)
    /\ Keys(R) = Keys(B)
    /\ \A k \in Keys(B) : IsDict(B.m[k]) => NoKeyAdded(B.m[k], R.m[k])

\* C10: patch_dict(B, P) has the keys of B and no other, and so has every nested
\* mapping of the result where B holds a mapping; keys that only P has are not
\* in the result.
C10_NoKeyAdded ==
    (pc = "done" /\ patched.kind = "return") => NoKeyAdded(base, patched.val)

C10_Witness ==
    /\ pc = "done"
    /\ patched.kind = "return"
    /\ patched.val # base
    /\ \E k \in Keys(base) \cap Keys(patch) :
          /\ IsDict(base.m[k]) /\ IsDict(patch.m[k])
          /\ Keys(patch.m[k]) \ Keys(base.m[k]) # {}
          /\ Keys(patch.m[k]) \cap Keys(base.m[k]) # {}

\* C11: in patch_dict(B, P), a key of both whose value in B is not a mapping
\* holds the value P gives it, and a key of B that P lacks holds the value B
\* gave it.
C11_ScalarReplacedAbsentKept ==
    (pc = "done" /\ patched.kind = "return") =>
        \A k \in Keys(base) :
            /\ (k \in Keys(patch) /\ ~IsDict(base.m[k])) => patched.val.m[k] = patch.m[k]
            /\ k \notin Keys(patch) => patched.val.m[k] = base.m[k]

C11_Witness ==
    /\ pc = "done"
    /\ patched.kind = "return"
    /\ \E k \in Keys(base) \cap Keys(patch) :
          ~IsDict(base.m[k]) /\ patch.m[k] # base.m[k] /\ patched.val.m[k] = patch.m[k]
    /\ \E k \in Keys(base) \ Keys(patch) : patched.val.m[k] = base.m[k]

\* C12: patching the result of patch_dict(B, P) with P once more returns that
\* result unchanged, also when P gave a mapping to a key that held a scalar in B.
C12_Idempotent ==
    repatched # NoResult => repatched = patched

C12_Witness ==
    /\ repatched.kind = "return"
    /\ patched.val # base
    /\ \E k \in Keys(base) \cap Keys(patch) :
          /\ ~IsDict(base.m[k])
          /\ IsDict(patch.m[k])
          /\ Keys(patch.m[k]) # {}

-----------------------------------------------------------------------------
(* _iterate_pages against every server script within the bounds: the       *)
(* answer to the request for page n is a page of two items or of none,     *)
(* with any totalPages, or an empty body, or a non-2xx response.           *)

MaxPages == 3      \* largest totalPages a page reports; one answer more is scripted

\* classes.py:221-222
SubtenantsUrl == Url("subtenants", 0, 0, "")

PageItem(n, j) == [id |-> 2 * (n - 1) + j, name |-> "item"]

PageItems(n) == <<PageItem(n, 1), PageItem(n, 2)>>

PageReplies(n) ==
    {[ok |-> TRUE, content |-> dumps(PageDoc(PageItems(n), tp, 2 * MaxPages))] :
        tp \in 0..MaxPages}
    \cup {[ok |-> TRUE, content |-> dumps(PageDoc(<<>>, tp, 0))] : tp \in 0..MaxPages}
    \cup {[ok |-> TRUE, content |-> EmptyBody], [ok |-> FALSE, content |-> EmptyBody]}

RECURSIVE PageScripts(_)

\* the scripts of n answers, the k-th one to the request for page k
PageScripts(n) ==
    IF n = 0 THEN {<<>>}
    ELSE {Append(rs, r) : rs \in PageScripts(n - 1), r \in PageReplies(n)}

PagesInit ==
    /\ pc = "idle"
    /\ call = NoCall
    /\ log = <<>>
    /\ replies = <<>>
    /\ result = NoResult
    /\ hasChildren = [i \in Resources |-> FALSE]
    /\ parent = [i \in Resources |-> 0]
    /\ rtype = [i \in Resources |-> "composition.resource.type.deployment"]
    /\ srvops = [i \in Resources |-> <<>>]
    /\ dep = NoDep
    /\ base = NoPatch
    /\ patch = NoPatch
    /\ patched = NoResult
    /\ repatched = NoResult
    /\ session = NoSession
    /\ ScriptUnused

\* self._iterate_pages(url, query=query) with the server answering by rs
IteratePagesCall(url, query, rs) ==
    /\ pc = "idle"
    /\ Observe([op |-> "_iterate_pages", url |-> url, query |-> query, rs |-> rs],
               _iterate_pages(url, query, rs), rs)
    /\ UNCHANGED <<serverVars, dep, patchVars, session, scriptVars>>

PagesNext ==
    /\ pc = "idle"
    /\ \E query \in {"", "&expandGroups=true"}, rs \in PageScripts(MaxPages + 1) :
          IteratePagesCall(SubtenantsUrl, query, rs)

SpecPages == PagesInit /\ [][PagesNext]_vars

-----------------------------------------------------------------------------
(* Properties of _iterate_pages (SpecPages).                               *)

PageOf(r) == loads(r.content)

IsPage(r) == r.ok /\ r.content # EmptyBody

RECURSIVE Concat(_)

Concat(seqs) == IF seqs = <<>> THEN <<>> ELSE Head(seqs) \o Concat(Tail(seqs))

PageRequest(n) == Req("GET", PageUrl(call.url, n, call.query), NoData)

\* C16: when every page reports the same totalPages = N >= 1 and a totalElements
\* above 0, _iterate_pages sends exactly N requests, for the pages 1..N in
\* increasing order, and returns the contents of the pages joined in page order.
C16_PagesOneToN ==
    \A N \in 1..MaxPages :
        (/\ Called("_iterate_pages")
         /\ \A n \in 1..Len(call.rs) :
               /\ IsPage(call.rs[n])
               /\ PageOf(call.rs[n]).metadata.totalPages = N
               /\ PageOf(call.rs[n]).metadata.totalElements > 0)
        => /\ result.kind = "return"
           /\ log = [n \in 1..N |-> PageRequest(n)]
           /\ result.val = Concat([n \in 1..N |-> PageOf(call.rs[n]).content])

C16_Witness ==
    /\ Called("_iterate_pages")
    /\ \A n \in 1..Len(call.rs) :
          /\ IsPage(call.rs[n])
          /\ PageOf(call.rs[n]).metadata.totalPages = MaxPages
          /\ PageOf(call.rs[n]).metadata.totalElements > 0
    /\ Len(log) = MaxPages
    /\ Len(result.val) = 2 * MaxPages

\* C17: when the first page reports totalElements = 0, _iterate_pages sends one
\* request, for page 1, whatever totalPages the page reports, and returns an
\* empty sequence.
C17_EmptyAfterOnePage ==
    (/\ Called("_iterate_pages")
     /\ IsPage(call.rs[1])
     /\ PageOf(call.rs[1]).metadata.totalElements = 0)
    => /\ result.kind = "return"
       /\ log = <<PageRequest(1)>>
       /\ result.val = <<>>

C17_Witness ==
    /\ Called("_iterate_pages")
    /\ IsPage(call.rs[1])
    /\ PageOf(call.rs[1]).metadata.totalElements = 0
    /\ PageOf(call.rs[1]).metadata.totalPages = MaxPages
    /\ Len(log) = 1

-----------------------------------------------------------------------------
(* Session.login: credentials are exchanged for a token with one POST,     *)
(* and the session keeps the token as its Authorization header.            *)

\* str(v), as '%s' % v formats a value
Str(v) ==
    CASE v.t = "str" -> v.s
      [] v.t = "int" -> ToString(v.n)
      [] OTHER       -> "None"

\* an authorization header made of the id alone
BareHeader(id) == Str(id)

\* classes.py:115, 'Bearer %s' % vratoken['id']
BearerHeader(id) == "Bearer " \o Str(id)

\* classes.py:42-65, Session.__init__
Session(username, cloudurl, tenant, token, ssl_verify) ==
    [username |-> username, cloudurl |-> cloudurl, tenant |-> tenant, token |-> token,
     ssl_verify |-> ssl_verify,
     headers |-> [ContentType |-> "Application/json", Accept |-> "Application/json",
                  Authorization |-> token]]

\* classes.py:101
TokensUrl(cloudurl) == [host |-> cloudurl, path |-> "identity/api/tokens"]

\* no response: requests.post raises ConnectionError
Unreachable == [refused |-> TRUE]

\* classes.py:111 and :117-119
InvalidToken(payload) == [t |-> "exc", name |-> "InvalidToken", payload |-> payload]

\* classes.py:67-127, Session.login answered by r.  json.loads of an empty body
\* raises ValueError, .keys() of a null document raises AttributeError, and
\* the status of the response is not looked at.
login(cls, username, password, cloudurl, tenant, ssl_verify, r) ==
    LET tenant_ == IF Truthy(tenant) THEN tenant ELSE JStr("vsphere.local")
        sent == <<Req("POST", TokensUrl(cloudurl),
                      dumps([tenant |-> tenant_, username |-> username,
                             password |-> password]))>>
    IN  IF r = Unreachable THEN Raise(sent, "ConnectionError")
        ELSE IF r.content = EmptyBody THEN Raise(sent, "ValueError")
        ELSE LET vratoken == loads(r.content)
             IN  IF ~IsDict(vratoken) THEN Raise(sent, "AttributeError")
                 ELSE IF "id" \in Keys(vratoken)
                 THEN Return(sent, Session(username, cloudurl, tenant_,
                                           BearerHeader(vratoken.m["id"]), ssl_verify))
                 ELSE [log |-> sent, kind |-> "raise",
                       val |-> InvalidToken(dumps(vratoken))]

-----------------------------------------------------------------------------
(* Session.login with every token response of the model.                   *)

TokenDocs ==
    {JDict("id" :> JStr("tok123")),
     JDict(("id" :> JStr("tok123")) @@ ("tenant" :> JStr("corp"))),
     JDict("id" :> JInt(7)),
     JDict("id" :> JNull),
     JDict(<<>>),
     JDict("errors" :> JStr("90135")),
     JNull}

TokenReplies ==
    {[ok |-> ok, content |-> dumps(d)] : ok \in BOOLEAN, d \in TokenDocs}
    \cup {[ok |-> ok, content |-> EmptyBody] : ok \in BOOLEAN}
    \cup {Unreachable}

LoginInit ==
    /\ session = NoSession
    /\ pc = "idle"
    /\ call = NoCall
    /\ log = <<>>
    /\ replies = <<>>
    /\ result = NoResult
    /\ hasChildren = [i \in Resources |-> FALSE]
    /\ parent = [i \in Resources |-> 0]
    /\ rtype = [i \in Resources |-> "composition.resource.type.deployment"]
    /\ srvops = [i \in Resources |-> <<>>]
    /\ dep = NoDep
    /\ base = NoPatch
    /\ patch = NoPatch
    /\ patched = NoResult
    /\ repatched = NoResult
    /\ ScriptUnused

\* vra = vralib.Session.login(username, password, cloudurl, tenant, ssl_verify)
LoginCall(username, password, cloudurl, tenant, ssl_verify, r) ==
    /\ pc = "idle"
    /\ LET q == login("Session", username, password, cloudurl, tenant, ssl_verify, r)
       IN  /\ Observe([op |-> "login", username |-> username, tenant |-> tenant,
                       ssl_verify |-> ssl_verify],
                      q, <<r>>)
           /\ session' = IF q.kind = "return" THEN q.val ELSE session
    /\ UNCHANGED <<serverVars, dep, patchVars, scriptVars>>

LoginNext ==
    \E username \in {JStr("admin@corp.local"), JStr("user@corp.local")},
       tenant \in {JNull, JStr(""), JStr("corp")},
       ssl_verify \in BOOLEAN,
       r \in TokenReplies :
        LoginCall(username, JStr("secret"), "vra.corp.local", tenant, ssl_verify, r)

SpecLogin == LoginInit /\ [][LoginNext]_vars

-----------------------------------------------------------------------------
(* Properties of Session.login (SpecLogin).                                *)

\* the token response is a JSON object
IsTokenObject(r) == r # Unreachable /\ r.content # EmptyBody /\ IsDict(loads(r.content))

HasId(r) == IsTokenObject(r) /\ "id" \in Keys(loads(r.content))

-----------------------------------------------------------------------------
(* The collections of the server and the name-based lookups of Session.    *)
(* A name is the sequence of its characters, so that lower() and the `in`  *)
(* test on strings are computed as Python computes them.                   *)

\* str.lower() on the characters the model uses
LowerChar(c) ==
    CASE c = "D" -> "d"
      [] c = "E" -> "e"
      [] c = "V" -> "v"
      [] c = "Q" -> "q"
      [] c = "A" -> "a"
      [] OTHER   -> c

Lower(name) == [i \in 1..Len(name) |-> LowerChar(name[i])]

\* `sub in text` on strings
IsIn(sub, text) ==
    \E i \in 0..(Len(text) - Len(sub)) : SubSeq(text, i + 1, i + Len(sub)) = sub

\* classes.py:210-212
_filter(items, name, key) ==
    SelectSeq(items, LAMBDA i : IsIn(Lower(name), Lower(i[key])))

OkReply(doc) == [ok |-> TRUE, content |-> dumps(doc)]

FailReply == [ok |-> FALSE, content |-> EmptyBody]

\* the pages the server cuts a collection into, two items to a page; an empty
\* collection is one page without items
ServePages(items) ==
    LET total == (Len(items) + 1) \div 2
    IN  IF items = <<>> THEN <<OkReply(PageDoc(<<>>, 0, 0))>>
        ELSE [n \in 1..total |->
                OkReply(PageDoc(SubSeq(items, 2 * n - 1,
                                       IF 2 * n < Len(items) THEN 2 * n ELSE Len(items)),
                                total, Len(items)))]

\* the answers rs with a non-2xx response for the f-th request (none for f = 0)
WithOutage(rs, f) == IF f = 0 THEN rs ELSE [rs EXCEPT ![f] = FailReply]

\* classes.py:313
EntitledItemsUrl == Url("entitledCatalogItems", 0, 0, "")

\* classes.py:420-421
ItemTemplateUrl(catalogitem) ==
    [path |-> "entitledCatalogItems", item |-> catalogitem, tail |-> "requests/template"]

\* classes.py:481-482
ItemRequestsUrl(catalogitem) ==
    [path |-> "entitledCatalogItems", item |-> catalogitem, tail |-> "requests"]

\* classes.py:513-514
ConsumerRequestUrl(request_id) == [path |-> "consumer/requests", id |-> request_id]

\* classes.py:214-223
get_business_groups(self, rs) == _iterate_pages(SubtenantsUrl, "", rs)

\* classes.py:257-265
get_businessgroup_byname(self, name, rs) ==
    LET q == get_business_groups(self, rs)
    IN  IF q.kind # "return" THEN q ELSE [q EXCEPT !.val = _filter(@, name, "name")]

\* classes.py:288-323 with no optional argument given
get_entitled_catalog_items(self, rs) == _iterate_pages(EntitledItemsUrl, "", rs)

\* classes.py:360-396 with no catalog given
get_catalogitem_byname(self, name, rs) ==
    LET q == get_entitled_catalog_items(self, rs)
    IN  IF q.kind # "return" THEN q
        ELSE [q EXCEPT !.val = SelectSeq(@, LAMBDA i :
                                   IsIn(Lower(name), Lower(i.catalogItem.name)))]

\* classes.py:410-422
get_request_template(self, catalogitem, r) ==
    _request(ItemTemplateUrl(catalogitem), "GET", JNull, r)

\* classes.py:447-483; rs answers the requests in the order they are sent
request_item(self, catalogitem, payload, rs) ==
    IF Truthy(payload)
    THEN _request(ItemRequestsUrl(catalogitem), "POST", payload, rs[1])
    ELSE LET t == get_request_template(self, catalogitem, rs[1])
         IN  IF t.kind = "raise" THEN t
             ELSE LET q == _request(ItemRequestsUrl(catalogitem), "POST", t.val, rs[2])
                  IN  [q EXCEPT !.log = t.log \o @]

\* classes.py:505-515
get_request(self, request_id, r) ==
    _request(ConsumerRequestUrl(request_id), "GET", JNull, r)

-----------------------------------------------------------------------------
(* The request-item script, main().  Its position pc is the statement it   *)
(* is about to run: "groups" (the business group lookup), "items" (the     *)
(* catalog item lookup of the sample), "template", "submit", "poll" and    *)
(* "sleep" of the provisioning loop, then "exit" or "raised".              *)

MaxPolls == 3        \* status polls the model follows the loop for

SleepSeconds == 5    \* time.sleep(5)

JList(items) == [t |-> "list", items |-> items]

Step(name) == [step |-> name]

Slept(seconds) == [step |-> "sleep", seconds |-> seconds]

\* an exception made with the arguments a
Error(name, a) == [t |-> "exc", name |-> name, args |-> a]

Sample == "tool-samples/request-item.py"
Tool == "request-item.py"

\* the checks of a lookup that takes the first of several matches
first_match(found) == IF found = <<>> THEN "NotFoundError" ELSE ""

\* tool-samples/request-item.py:87-90 and :93-96, request-item.py:83-86
one_match(found) ==
    IF found = <<>> THEN "NotFoundError"
    ELSE IF Len(found) > 1 THEN "Exception"
    ELSE ""

\* pprint(object) writes the object to stdout and returns None
pprint(object) == [out |-> <<object>>, val |-> JNull]

\* d[k] = v
SetItem(d, k, v) ==
    JDict([j \in Keys(d) \cup {k} |-> IF j = k THEN v ELSE d.m[j]])

\* a loop that waits and polls again whatever the state is
after_poll_retrying(vra_request) == "sleep"

\* a loop that gives up on a state it has no name for
after_poll_strict(vra_request) ==
    IF vra_request.state \in {"PROVIDER_FAILED", "FAILED"} THEN "raise"
    ELSE IF vra_request.state = "SUCCESSFUL" THEN "break"
    ELSE IF vra_request.state \in {"SUBMITTED", "IN_PROGRESS"} THEN "sleep"
    ELSE "raise"

\* a loop that does not stop on SUCCESSFUL
after_poll_unending(vra_request) ==
    IF vra_request.state \in {"PROVIDER_FAILED", "FAILED"} THEN "raise" ELSE "sleep"

\* tool-samples/request-item.py:136-144, what the loop does with a polled request
after_poll(vra_request) ==
    IF vra_request.state = "PROVIDER_FAILED" THEN "raise"
    ELSE IF vra_request.state = "FAILED" THEN "raise"
    ELSE IF vra_request.state = "SUCCESSFUL" THEN "break"
    ELSE "sleep"

\* tool-samples/request-item.py:137 and :140
FailureMessage(vra_request) ==
    IF vra_request.state = "PROVIDER_FAILED"
    THEN JStr("Request provider failed! Dumping JSON output of request")
    ELSE JStr("Failed inside of vRA! Dumping JSON output of request")

-----------------------------------------------------------------------------
(* The server of the script and the runs of the script.                    *)

Names == [dev |-> <<"D", "e", "v">>, dev2 |-> <<"d", "e", "v", "2">>, qa |-> <<"Q", "A">>]

BusinessGroups ==
    <<[id |-> JStr("bg1"), name |-> Names.dev],
      [id |-> JStr("bg2"), name |-> Names.dev2],
      [id |-> JStr("bg3"), name |-> Names.qa]>>

\* the entitled catalog items, each wrapping its catalog item; withId says
\* whether the entitled item has an `id` of its own
EntitledItem(id, name, withId) ==
    IF withId THEN [id |-> id, catalogItem |-> [id |-> id, name |-> name]]
    ELSE [catalogItem |-> [id |-> id, name |-> name]]

EntitledItems(withId) ==
    <<EntitledItem(JStr("ci1"), Names.dev, withId),
      EntitledItem(JStr("ci2"), Names.qa, withId),
      EntitledItem(JStr("ci3"), Names.dev2, withId)>>

\* the names asked for: two matches, one match by lower case, one match, none
AskedFor ==
    {<<"d", "e", "v">>, <<"D", "E", "V", "2">>, <<"q", "a">>, <<"o", "p", "s">>}

RequestTemplates ==
    {JDict(("description" :> JStr("template")) @@ ("data" :> JDict("cpu" :> JInt(1)))),
     JDict(("businessGroupId" :> JStr("bg0")) @@ ("data" :> JInt(1)))}

ParameterFiles ==
    {JNull, JDict("data" :> JDict("cpu" :> JInt(2))), JDict("data" :> JInt(2))}

RequestStates ==
    {"SUBMITTED", "IN_PROGRESS", "REJECTED", "SUCCESSFUL", "FAILED", "PROVIDER_FAILED"}

RequestDoc(state) ==
    [id |-> JStr("req1"), state |-> state, stateName |-> state, phase |-> state]

EmptyReply == [ok |-> TRUE, content |-> EmptyBody]

TemplateReplies == {OkReply(t) : t \in RequestTemplates} \cup {EmptyReply, FailReply}

SubmitReplies == {OkReply(RequestDoc("SUBMITTED")), EmptyReply, FailReply}

PollReplies == {OkReply(RequestDoc(st)) : st \in RequestStates} \cup {EmptyReply, FailReply}

NewFrame ==
    [business_groups |-> JNull, catalog_items |-> JNull, business_group_id |-> JNull,
     catalog_item_id |-> JNull, request_template |-> JNull, build_vm |-> JNull,
     vra_request |-> JNull]

\* getargs(): the sample takes the name of a catalog item, the tool its id
Arguments(script) ==
    {[script |-> script, businessgroup |-> bg, catalogitem |-> ci,
      description |-> d[1], reasons |-> d[2], parameters |-> f] :
        bg \in AskedFor,
        ci \in IF script = Sample THEN AskedFor ELSE {JStr("ci2")},
        d \in {<<JNull, JNull>>, <<JStr("test"), JStr("why")>>},
        f \in ParameterFiles}

RunInit ==
    /\ session = Session(JStr("admin@corp.local"), "vra.corp.local", JStr("corp"),
                         BearerHeader(JStr("tok123")), FALSE)
    /\ \E script \in {Sample, Tool} : args \in Arguments(script)
    /\ directory \in {[groups |-> BusinessGroups, items |-> EntitledItems(withId)] :
                        withId \in BOOLEAN}
    /\ frame = NewFrame
    /\ trail = <<>>
    /\ stdout = <<>>
    /\ pc = "groups"
    /\ call = NoCall
    /\ log = <<>>
    /\ replies = <<>>
    /\ result = NoResult
    /\ hasChildren = [i \in Resources |-> FALSE]
    /\ parent = [i \in Resources |-> 0]
    /\ rtype = [i \in Resources |-> "composition.resource.type.deployment"]
    /\ srvops = [i \in Resources |-> <<>>]
    /\ dep = NoDep
    /\ base = NoPatch
    /\ patch = NoPatch
    /\ patched = NoResult
    /\ repatched = NoResult

\* the statement raises: main() ends with the exception
Raised(exc) ==
    /\ pc' = "raised"
    /\ result' = [kind |-> "raise", val |-> exc]

\* the requests the statement sent and the responses it got
Sent(q, rs) ==
    /\ log' = log \o q.log
    /\ replies' = replies \o SubSeq(rs, 1, Len(q.log))

runFixed == <<serverVars, dep, patchVars, session, args, directory, call>>

\* tool-samples/request-item.py:86-90, request-item.py:82-86; the f-th page
\* request finds the server failing
LookupBusinessGroups(f) ==
    /\ pc = "groups"
    /\ LET rs == WithOutage(ServePages(directory.groups), f)
           q == get_businessgroup_byname(session, args.businessgroup, rs)
       IN  /\ Sent(q, rs)
           /\ trail' = Append(trail, Step("get_businessgroup_byname"))
           /\ IF q.kind = "raise"
              THEN Raised(q.val) /\ UNCHANGED frame
              ELSE /\ frame' = [frame EXCEPT !.business_groups = JList(q.val)]
                   /\ IF one_match(q.val) # ""
                      THEN Raised(Exc(one_match(q.val)))
                      ELSE /\ pc' = IF args.script = Sample THEN "items" ELSE "template"
                           /\ UNCHANGED result
    /\ UNCHANGED <<runFixed, stdout>>

\* tool-samples/request-item.py:92-96
LookupCatalogItems(f) ==
    /\ pc = "items"
    /\ LET rs == WithOutage(ServePages(directory.items), f)
           q == get_catalogitem_byname(session, args.catalogitem, rs)
       IN  /\ Sent(q, rs)
           /\ trail' = Append(trail, Step("get_catalogitem_byname"))
           /\ IF q.kind = "raise"
              THEN Raised(q.val) /\ UNCHANGED frame
              ELSE /\ frame' = [frame EXCEPT !.catalog_items = JList(q.val)]
                   /\ IF one_match(q.val) # ""
                      THEN Raised(Exc(one_match(q.val)))
                      ELSE pc' = "template" /\ UNCHANGED result
    /\ UNCHANGED <<runFixed, stdout>>

\* tool-samples/request-item.py:98-101 (catalog_items[0]['id'] raises KeyError when
\* the entitled item has no id), request-item.py:88 (args.catalogitem is the id)
FetchTemplate(r) ==
    /\ pc = "template"
    /\ IF args.script = Sample /\ "id" \notin DOMAIN frame.catalog_items.items[1]
       THEN /\ Raised(Exc("KeyError"))
            /\ frame' = [frame EXCEPT
                            !.business_group_id = frame.business_groups.items[1].id]
            /\ UNCHANGED <<log, replies, trail>>
       ELSE LET id == IF args.script = Sample THEN frame.catalog_items.items[1].id
                      ELSE args.catalogitem
                q == get_request_template(session, id, r)
            IN  /\ Sent(q, <<r>>)
                /\ trail' = Append(trail, Step("get_request_template"))
                /\ IF q.kind = "raise"
                   THEN /\ Raised(q.val)
                        /\ frame' = [frame EXCEPT
                               !.business_group_id = frame.business_groups.items[1].id,
                               !.catalog_item_id = id]
                   ELSE /\ pc' = "submit"
                        /\ frame' = [frame EXCEPT
                               !.business_group_id = frame.business_groups.items[1].id,
                               !.catalog_item_id = id,
                               !.request_template = q.val]
                        /\ UNCHANGED result
    /\ UNCHANGED <<runFixed, stdout>>

\* tool-samples/request-item.py:105-130, request-item.py:90-115; args.parameters
\* stands for the document read from the parameters file, None for no file
SubmitRequest(r) ==
    /\ pc = "submit"
    /\ IF ~IsDict(frame.request_template)
       THEN /\ Raised(Exc("TypeError"))
            /\ UNCHANGED <<frame, log, replies, trail, stdout>>
       ELSE LET t1 == SetItem(frame.request_template, "businessGroupId",
                              frame.business_group_id)
                t2 == IF Truthy(args.description)
                      THEN SetItem(t1, "description", args.description) ELSE t1
                t3 == IF Truthy(args.reasons)
                      THEN SetItem(t2, "reasons", args.reasons) ELSE t2
                p == IF args.parameters # JNull THEN patch_dict(t3, args.parameters)
                     ELSE Return(<<>>, t3)
            IN  IF p.kind = "raise"
                THEN /\ Raised(p.val)
                     /\ UNCHANGED <<frame, log, replies, trail, stdout>>
                ELSE LET q == request_item(session, frame.catalog_item_id, p.val, <<r>>)
                     IN  /\ stdout' = stdout \o pprint(p.val).out
                         /\ Sent(q, <<r>>)
                         /\ trail' = Append(trail, Step("request_item"))
                         /\ IF q.kind = "raise"
                            THEN /\ Raised(q.val)
                                 /\ frame' = [frame EXCEPT !.request_template = p.val]
                            ELSE /\ pc' = "poll"
                                 /\ frame' = [frame EXCEPT !.request_template = p.val,
                                                           !.build_vm = q.val]
                                 /\ UNCHANGED result
    /\ UNCHANGED runFixed

Polls == Len(SelectSeq(trail, LAMBDA e : e = Step("get_request")))

\* tool-samples/request-item.py:133-143 and :146-147, request-item.py:118-128 and
\* :131-132: one status poll and what the loop makes of it.  build_vm['id'] and
\* vra_request['stateName'] raise TypeError on None.
Poll(r) ==
    /\ pc = "poll"
    /\ Polls < MaxPolls
    /\ IF frame.build_vm = JNull
       THEN /\ Raised(Exc("TypeError"))
            /\ UNCHANGED <<frame, log, replies, trail, stdout>>
       ELSE LET q == get_request(session, frame.build_vm.id, r)
                vra_request == q.val
            IN  /\ Sent(q, <<r>>)
                /\ trail' = Append(trail, Step("get_request"))
                /\ IF q.kind = "raise"
                   THEN Raised(q.val) /\ UNCHANGED <<frame, stdout>>
                   ELSE /\ frame' = [frame EXCEPT !.vra_request = vra_request]
                        /\ IF vra_request = JNull
                           THEN Raised(Exc("TypeError")) /\ UNCHANGED stdout
                           ELSE LET line == [stateName |-> vra_request.stateName,
                                             phase |-> vra_request.phase]
                                    dump == pprint(vra_request)
                                IN  CASE after_poll(vra_request) = "raise" ->
                                           /\ stdout' = stdout \o <<line>> \o dump.out
                                           /\ Raised(Error("Exception",
                                                  <<FailureMessage(vra_request),
                                                    dump.val>>))
                                      [] after_poll(vra_request) = "break" ->
                                           /\ stdout' = stdout \o <<line, Step("####")>>
                                                               \o dump.out
                                           /\ pc' = "exit"
                                           /\ result' = [kind |-> "return", val |-> JNull]
                                      [] OTHER ->
                                           /\ stdout' = Append(stdout, line)
                                           /\ pc' = "sleep"
                                           /\ UNCHANGED result
    /\ UNCHANGED runFixed

\* tool-samples/request-item.py:144, request-item.py:129
Sleep ==
    /\ pc = "sleep"
    /\ pc' = "poll"
    /\ trail' = Append(trail, Slept(SleepSeconds))
    /\ UNCHANGED <<runFixed, frame, log, replies, result, stdout>>

RunNext ==
    \/ \E f \in 0..Len(ServePages(directory.groups)) : LookupBusinessGroups(f)
    \/ \E f \in 0..Len(ServePages(directory.items)) : LookupCatalogItems(f)
    \/ \E r \in TemplateReplies : FetchTemplate(r)
    \/ \E r \in SubmitReplies : SubmitRequest(r)
    \/ \E r \in PollReplies : Poll(r)
    \/ Sleep

SpecRun == RunInit /\ [][RunNext]_vars

-----------------------------------------------------------------------------
(* Properties of the request-item script (SpecRun).                        *)

\* the response to the k-th status poll: the polls are the last requests sent
PollReply(k) == replies[Len(replies) - Polls + k]

\* the state the k-th poll saw, "" when the poll brought no request body
PolledState(k) ==
    IF PollReply(k).ok /\ PollReply(k).content # EmptyBody
    THEN loads(PollReply(k).content).state
    ELSE ""

FailedStates == {"FAILED", "PROVIDER_FAILED"}

NonTerminal(st) == st # "" /\ st \notin FailedStates \cup {"SUCCESSFUL"}

IsPoll(e) == e = Step("get_request")

IsSleep(e) == e = Slept(SleepSeconds)

\* the steps of the provisioning loop: the trail from the first poll on
LoopTrail ==
    SubSeq(trail, Len(trail) - Len(SelectSeq(trail, LAMBDA e : IsPoll(e) \/ IsSleep(e))) + 1,
           Len(trail))

\* C13: when the first k polls see a non-terminal state and poll k+1 sees
\* SUCCESSFUL, the loop has made exactly k+1 polls and k waits, one wait between
\* each two consecutive polls, and has stopped with the body of the last poll
\* as its outcome (the script prints it and ends).
C13_PollsUntilSuccessful ==
    \A k \in 0..(MaxPolls - 1) :
        (/\ Polls = k + 1
         /\ \A i \in 1..k : NonTerminal(PolledState(i))
         /\ PolledState(k + 1) = "SUCCESSFUL")
        => /\ pc = "exit"
           /\ result.kind = "return"
           /\ LoopTrail = [i \in 1..(2 * k + 1) |->
                             IF i % 2 = 1 THEN Step("get_request")
                             ELSE Slept(SleepSeconds)]
           /\ frame.vra_request = loads(PollReply(k + 1).content)
           /\ stdout[Len(stdout)] = frame.vra_request

C13_Witness ==
    /\ pc = "exit"
    /\ Polls = 3
    /\ PolledState(1) = "IN_PROGRESS"
    /\ PolledState(2) = "IN_PROGRESS"
    /\ PolledState(3) = "SUCCESSFUL"
    /\ Len(SelectSeq(trail, IsSleep)) = 2

\* C14: a poll that sees FAILED or PROVIDER_FAILED is the last step of the
\* script: the script has raised, and no poll and no wait follows that poll.
C14_FailureStopsLoop ==
    \A i \in 1..Polls :
        PolledState(i) \in FailedStates
        => /\ i = Polls
           /\ pc = "raised"
           /\ result.val.name = "Exception"
           /\ IsPoll(trail[Len(trail)])

C14_Witness ==
    /\ pc = "raised"
    /\ Polls = 2
    /\ PolledState(1) = "SUBMITTED"
    /\ PolledState(2) = "PROVIDER_FAILED"
    /\ IsPoll(trail[Len(trail)])

\* C15: the exception raised on FAILED or PROVIDER_FAILED holds, among its
\* arguments, the request body the last poll returned.
C15_ErrorCarriesBody ==
    (pc = "raised" /\ Polls > 0 /\ PolledState(Polls) \in FailedStates)
    => \E i \in 1..Len(result.val.args) : result.val.args[i] = frame.vra_request

\* C19: a non-2xx response is the last response the script receives: the one
\* request it answers is not sent again, the script has raised HTTPError, and
\* after a failing poll there is no poll and no wait; every wait follows a poll
\* that fetched a non-terminal state, every later poll follows a wait, and no
\* other step or request is repeated.
C19_NoRetry ==
    /\ Len(log) = Len(replies)
    /\ \A i \in 1..Len(replies) :
          ~replies[i].ok
          => /\ i = Len(replies)
             /\ pc = "raised"
             /\ result.val = Exc("HTTPError")
             /\ ~IsSleep(trail[Len(trail)])
    /\ \A j \in 1..Len(trail) :
          /\ IsSleep(trail[j])
             => /\ j > 1
                /\ IsPoll(trail[j - 1])
                /\ NonTerminal(PolledState(Len(SelectSeq(SubSeq(trail, 1, j), IsPoll))))
          /\ (IsPoll(trail[j]) /\ \E h \in 1..(j - 1) : IsPoll(trail[h]))
             => IsSleep(trail[j - 1])
          /\ \A h \in 1..(j - 1) :
                trail[h] = trail[j] => IsPoll(trail[j]) \/ IsSleep(trail[j])
    /\ \A i, j \in 1..Len(log) :
          (i < j /\ log[i] = log[j]) => j > Len(log) - Polls

C19_Witness ==
    /\ pc = "raised"
    /\ Polls = 2
    /\ PolledState(1) = "IN_PROGRESS"
    /\ ~PollReply(2).ok
    /\ result.val = Exc("HTTPError")

NoTemplateNoSubmit ==
    /\ \A j \in 1..Len(trail) :
          trail[j] \notin {Step("get_request_template"), Step("request_item")}
    /\ \A i \in 1..Len(log) : log[i].method = "GET" /\ "page" \in DOMAIN log[i].url

\* C20: request_item is called only when each name-based lookup of the script
\* returned exactly one match; a lookup that returns no match raises
\* NotFoundError and one that returns several raises Exception, and then no
\* request template has been fetched and nothing has been submitted.
C20_SubmitOnlyAfterUniqueLookups ==
    /\ \A found \in {frame.business_groups, frame.catalog_items} :
          found # JNull
          => /\ Len(found.items) = 0
                => pc = "raised" /\ result.val = Exc("NotFoundError") /\ NoTemplateNoSubmit
             /\ Len(found.items) > 1
                => pc = "raised" /\ result.val = Exc("Exception") /\ NoTemplateNoSubmit
    /\ (\E j \in 1..Len(trail) : trail[j] = Step("request_item"))
       => /\ frame.business_groups # JNull
          /\ Len(frame.business_groups.items) = 1
          /\ args.script = Sample
             => frame.catalog_items # JNull /\ Len(frame.catalog_items.items) = 1

C20_Witness ==
    /\ pc = "raised"
    /\ frame.business_groups # JNull
    /\ Len(frame.business_groups.items) = 1
    /\ frame.catalog_items # JNull
    /\ Len(frame.catalog_items.items) = 2
    /\ result.val = Exc("Exception")

-----------------------------------------------------------------------------
(* scale_out on an operation list with several 'Scale Out' entries         *)
(* (SpecOps).                                                              *)

\* C21: when the operation list holds more than one 'Scale Out', a scale_out
\* that returns has sent two requests: the GET of the first match's template
\* and the POST of that template to the first match's request URL.
C21_FirstScaleOutOnly ==
    (/\ Called("scale_out")
     /\ Cardinality(Matches("Scale Out")) > 1
     /\ result.kind = "return")
    => LET i == Least(Matches("Scale Out"))
       IN  /\ Len(log) = 2
           /\ log[1] = Req("GET", Self.operations[i].template_url, NoData)
           /\ log[2].method = "POST"
           /\ log[2].url = Self.operations[i].request_url
           /\ SameButCluster(JsonOf(replies[1].content), log[2].data.doc, call.arg)

-----------------------------------------------------------------------------
(* _iterate_pages when the reported totalPages changes between pages       *)
(* (SpecPages).                                                            *)

\* every answer of the server script is a page that reports totalPages >= 1
AllPagesCounted ==
    \A n \in 1..Len(call.rs) :
        IsPage(call.rs[n]) /\ PageOf(call.rs[n]).metadata.totalPages >= 1

\* C22: when every page reports a totalPages of at least 1, whatever it is from
\* page to page, _iterate_pages has ended with the answers it was given, and
\* each request after the first asks for a page index no greater than the
\* totalPages reported by the page fetched just before.
C22_StopsWithinReportedPages ==
    (Called("_iterate_pages") /\ AllPagesCounted)
    => /\ result.kind # "running"
       /\ \A n \in 2..Len(log) :
             log[n].url.page <= PageOf(replies[n - 1]).metadata.totalPages

-----------------------------------------------------------------------------
(* The end of the provisioning loop (SpecRun).                             *)

\* every status poll made so far brought a request body
PollsSucceeded == Polls > 0 /\ \A i \in 1..Polls : PolledState(i) # ""

TerminalSeen == \E i \in 1..Polls : ~NonTerminal(PolledState(i))

PollAny == \E r \in PollReplies : Poll(r)

\* C23: when every status poll so far has succeeded, the script has left the
\* loop exactly when some poll saw SUCCESSFUL, FAILED or PROVIDER_FAILED; on any
\* other state, a label foreign to the script included, it is waiting or about
\* to poll again, and that next step is open to it however many polls it has
\* made (up to the polls the model follows).
C23_EndsOnlyOnTerminalState ==
    PollsSucceeded
    => /\ (pc \in {"exit", "raised"}) = TerminalSeen
       /\ ~TerminalSeen
          => \/ pc = "sleep" /\ IsPoll(trail[Len(trail)]) /\ ENABLED Sleep
             \/ /\ pc = "poll"
                /\ IsSleep(trail[Len(trail)])
                /\ Polls < MaxPolls => ENABLED PollAny

C23_Witness ==
    /\ PollsSucceeded
    /\ Polls = 2
    /\ PolledState(1) = "REJECTED"
    /\ PolledState(2) = "REJECTED"
    /\ pc = "poll"

====
